---- MODULE Spec2Model ----
(***************************************************************************)
(* agent-finder: region-scoped paginated scrape of a brokerage directory.  *)
(*                                                                         *)
(* ApiCrawler (api_crawler.py) resolves region codes, discovers the page   *)
(* count and walks the listing pages; ApiRegionSearch                      *)
(* (api_region_search.py) caches the region name lists and drives a        *)
(* search; ApiSearchWorker / ApiRealEstateGUI (api_gui.py) run a search on *)
(* a background thread.                                                    *)
(*                                                                         *)
(* Python's None, "" and 0 are all falsy and the code only ever tests      *)
(* them with `if x:` / `if not x:`, so an absent name is "" and an absent  *)
(* code is 0 here.                                                         *)
(***************************************************************************)
EXTENDS Integers, Sequences, FiniteSets, TLC

VARIABLES
    siteDoc,          \* the site's page-1 pagination controls, fixed for the session
    sigungu_codes,    \* ApiCrawler.sigungu_codes: [has, map]; has = hasattr(self, 'sigungu_codes')
    dong_codes,       \* ApiCrawler.dong_codes:    [has, map]
    results,          \* ApiCrawler.results (one list per crawler instance)
    rs_sigungu_list,  \* ApiRegionSearch.sigungu_list: province name -> cached names
    rs_dong_list,     \* ApiRegionSearch.dong_list: <<province, district>> -> cached names
    comboRequests,    \* number of requests sent to ajax_combo_search.asp
    nLookups,         \* how many ApiRegionSearch list lookups the session has made
    lastLookup,       \* the last ApiRegionSearch.get_*_list call: [fn, sido, sigungu, ret, sent,
                      \* outcome]; sent = a request was made, outcome = how it ended
    w,                \* per search thread: its position, arguments and locals
    log,              \* per search thread: requests sent and progress reports made, in order
    gui               \* ApiRealEstateGUI: search_button, search_worker, stop events
    , probe           \* input and output of a stand-alone get_total_pages call

vars == <<siteDoc, sigungu_codes, dong_codes, results, rs_sigungu_list, rs_dong_list,
          comboRequests, nLookups, lastLookup, w, log, gui, probe>>

----------------------------------------------------------------------------
\* Bounds of the model.

\* Longest list of pagination links in a page-1 document given to get_total_pages.
MaxLinks == 3
\* Largest page number a pagination link may carry.
MaxPageNo == 3
\* Most ApiRegionSearch list lookups made in one session.
MaxLookups == 2

----------------------------------------------------------------------------
\* Small helpers.

Max(S) == CHOOSE x \in S : \A y \in S : y <= x

Min(S) == CHOOSE x \in S : \A y \in S : x <= y

Range(s) == {s[i] : i \in DOMAIN s}

----------------------------------------------------------------------------
\* ApiCrawler.__init__: the fixed province table.

\* The table with the last province given the code of the one before it.
sido_mapping_SharedCode ==
    [n \in {"Seoul", "Gyeonggi", "Incheon", "Busan", "Daegu", "Gwangju", "Daejeon",
            "Ulsan", "Gangwon", "Gyeongnam", "Gyeongbuk", "Jeonnam", "Jeonbuk",
            "Chungnam", "Chungbuk", "Sejong", "Jeju"} |->
        CASE n = "Seoul" -> 1 [] n = "Gyeonggi" -> 2 [] n = "Incheon" -> 3
          [] n = "Busan" -> 4 [] n = "Daegu" -> 5 [] n = "Gwangju" -> 6
          [] n = "Daejeon" -> 7 [] n = "Ulsan" -> 8 [] n = "Gangwon" -> 9
          [] n = "Gyeongnam" -> 10 [] n = "Gyeongbuk" -> 11 [] n = "Jeonnam" -> 12
          [] n = "Jeonbuk" -> 13 [] n = "Chungnam" -> 14 [] n = "Chungbuk" -> 15
          [] n = "Sejong" -> 16 [] n = "Jeju" -> 16]

sido_mapping ==
    [n \in {"Seoul", "Gyeonggi", "Incheon", "Busan", "Daegu", "Gwangju", "Daejeon",
            "Ulsan", "Gangwon", "Gyeongnam", "Gyeongbuk", "Jeonnam", "Jeonbuk",
            "Chungnam", "Chungbuk", "Sejong", "Jeju"} |->
        CASE n = "Seoul" -> 1 [] n = "Gyeonggi" -> 2 [] n = "Incheon" -> 3
          [] n = "Busan" -> 4 [] n = "Daegu" -> 5 [] n = "Gwangju" -> 6
          [] n = "Daejeon" -> 7 [] n = "Ulsan" -> 8 [] n = "Gangwon" -> 9
          [] n = "Gyeongnam" -> 10 [] n = "Gyeongbuk" -> 11 [] n = "Jeonnam" -> 12
          [] n = "Jeonbuk" -> 13 [] n = "Chungnam" -> 14 [] n = "Chungbuk" -> 15
          [] n = "Sejong" -> 16 [] n = "Jeju" -> 17]

\* self.sido_mapping.get(sido): None (0) for an unknown name.
SidoCode(sido) == IF sido \in DOMAIN sido_mapping THEN sido_mapping[sido] ELSE 0

\* _get_sido_name_by_code
SidoNameByCode(code) ==
    IF \E n \in DOMAIN sido_mapping : sido_mapping[n] = code
    THEN CHOOSE n \in DOMAIN sido_mapping : sido_mapping[n] = code
    ELSE ""

----------------------------------------------------------------------------
\* The site, as the crawler sees it through its three endpoints.

\* Province names the caller passes; "Atlantis" is not in sido_mapping.
SidoInputs == {"Seoul", "Busan", "Atlantis"}

\* District names the caller passes ("" = no district).
SigunguInputs == {"", "Junggu", "Gangnam"}

\* Sub-district names the caller passes ("" = no sub-district).
DongInputs == {"", "Dong1"}

\* ajax_combo_search.asp?flag=S: the parallel name / code arrays of a province.
\* Both Seoul and Busan have a district called Junggu, with different codes.
SiteSigungu(sido_code) ==
    CASE sido_code = 1 -> [name |-> <<"Junggu", "Gangnam">>, code |-> <<11, 12>>]
      [] sido_code = 4 -> [name |-> <<"Junggu", "Haeundae">>, code |-> <<41, 42>>]
      [] OTHER -> [name |-> << >>, code |-> << >>]

\* ajax_combo_search.asp?flag=G: the name / code arrays of a district.  Only
\* the first district of a province has a sub-district called Dong1.
SiteDong(sido_code, sigungu_code) ==
    IF sigungu_code \in Range(SiteSigungu(sido_code).code)
    THEN [name |-> <<IF sigungu_code = Head(SiteSigungu(sido_code).code)
                     THEN "Dong1" ELSE "Dong2">>,
          code |-> <<sigungu_code * 10 + 1>>]
    ELSE [name |-> << >>, code |-> << >>]

\* What one HTTP request to the combo endpoint can bring back.
ComboOutcomes == {"ok", "status", "raise", "noname", "nocode"}

\* What one HTTP request to the listing endpoint can bring back.
FetchOutcomes == {"ok", "status", "raise"}

----------------------------------------------------------------------------
\* ApiCrawler.get_sigungu_list / get_dong_list.

NoCodes == [has |-> FALSE, map |-> << >>]

\* dict(zip(names, codes)) as the loop at lines 124-126 builds it.
ZipCodes(names, codes) ==
    LET keys == {names[j] : j \in {j \in DOMAIN names : j <= Len(codes)}}
    IN  IF keys = {} THEN << >>
        ELSE [n \in keys |->
                 codes[Max({j \in DOMAIN names : names[j] = n /\ j <= Len(codes)})]]

\* dict.get(key) with None / "" as 0.
CodeOf(codes, name) == IF name \in DOMAIN codes.map THEN codes.map[name] ELSE 0

\* ApiCrawler.get_sigungu_list(sido) on a request that ends in `outcome`:
\* the list returned, the sigungu_codes left behind, and whether a request was sent.
CrawlerGetSigungu(sido, outcome, codes) ==
    LET sido_code == SidoCode(sido)
        resp == SiteSigungu(sido_code)
    IN  IF sido_code = 0
        THEN [ret |-> << >>, codes |-> codes, sent |-> FALSE]
        ELSE IF outcome \in {"status", "raise", "noname"}
        THEN [ret |-> << >>, codes |-> codes, sent |-> TRUE]
        ELSE IF outcome = "nocode"
        THEN [ret |-> resp.name, codes |-> [has |-> TRUE, map |-> << >>], sent |-> TRUE]
        ELSE [ret |-> resp.name,
              codes |-> [has |-> TRUE, map |-> ZipCodes(resp.name, resp.code)],
              sent |-> TRUE]

\* ApiCrawler.get_dong_list(sido, sigungu) on a request that ends in `outcome`.
\* self.sigungu_codes.get raises AttributeError when the attribute was never
\* set; the except clause turns that into [] as well.
CrawlerGetDong(sido, sigungu, outcome, scodes, dcodes) ==
    LET sido_code == SidoCode(sido)
        sigungu_code == CodeOf(scodes, sigungu)
        resp == SiteDong(sido_code, sigungu_code)
    IN  IF sido_code = 0 \/ ~scodes.has \/ sigungu_code = 0
        THEN [ret |-> << >>, codes |-> dcodes, sent |-> FALSE]
        ELSE IF outcome \in {"status", "raise", "noname"}
        THEN [ret |-> << >>, codes |-> dcodes, sent |-> TRUE]
        ELSE IF outcome = "nocode"
        THEN [ret |-> resp.name, codes |-> [has |-> TRUE, map |-> << >>], sent |-> TRUE]
        ELSE [ret |-> resp.name,
              codes |-> [has |-> TRUE, map |-> ZipCodes(resp.name, resp.code)],
              sent |-> TRUE]

----------------------------------------------------------------------------
\* A listing document's pagination controls: what
\* soup.select('.pagination a, a[href*="page="]') returns, in document order.
\*   text: ">>" or "raquo" (the jump-to-last control), "num" (a page-number
\*         link, whose number is n) or "prev" (any other text);
\*   href: "none" (no href, or an empty one), "nopage" (an href without
\*         page=<digits>) or "page" (an href with page=<page>).

JumpTexts == {">>", "raquo"}

LinkAlphabet ==
    {[text |-> t, n |-> 0, href |-> "none", page |-> 0] : t \in JumpTexts}
    \cup {[text |-> t, n |-> 0, href |-> "nopage", page |-> 0] : t \in JumpTexts}
    \cup {[text |-> t, n |-> 0, href |-> "page", page |-> p] :
              t \in JumpTexts, p \in 1..MaxPageNo}
    \cup {[text |-> "num", n |-> k, href |-> "page", page |-> k] : k \in 1..MaxPageNo}
    \cup {[text |-> "prev", n |-> 0, href |-> "page", page |-> 1]}

AllDocs == UNION {[1..k -> LinkAlphabet] : k \in 0..MaxLinks}

RECURSIVE FirstJumpFrom(_, _)
\* for link in pagination_links: if link.text.strip() in ('>>', '»'): ... break
\* The index of the link the loop stops at; 0 when it runs to the end.
FirstJumpFrom(doc, i) ==
    IF i > Len(doc) THEN 0
    ELSE IF doc[i].text = ">>" \/ doc[i].text = "raquo" THEN i
    ELSE FirstJumpFrom(doc, i + 1)

\* last_page_link = link.get('href'): is it truthy, and the page=(\d+) it carries.
LastPageLink(doc) ==
    LET i == FirstJumpFrom(doc, 1)
    IN  IF i = 0 THEN [truthy |-> FALSE, page |-> 0]
        ELSE [truthy |-> doc[i].href # "none",
              page |-> IF doc[i].href = "page" THEN doc[i].page ELSE 0]

\* page_numbers = [int(a.text.strip()) for a in pagination_links if a.text.strip().isdigit()]
PageNumbers(doc) == {doc[i].n : i \in {j \in DOMAIN doc : doc[j].text = "num"}}

\* get_total_pages without the fall-through of lines 267-273: a jump control
\* whose href carries no page number ends the search for a page count.
GetTotalPagesDoc_NoFallThrough(doc) ==
    LET last == LastPageLink(doc)
    IN  IF Len(doc) = 0 THEN 1
        ELSE IF last.truthy THEN (IF last.page # 0 THEN last.page ELSE 1)
        ELSE IF PageNumbers(doc) # {} THEN Max(PageNumbers(doc))
        ELSE 1

\* get_total_pages, lines 251-277: the page count read from a fetched document.
GetTotalPagesDoc(doc) ==
    LET last == LastPageLink(doc)
    IN  IF Len(doc) = 0 THEN 1
        ELSE IF last.truthy /\ last.page # 0 THEN last.page
        ELSE IF PageNumbers(doc) # {} THEN Max(PageNumbers(doc))
        ELSE 1

\* get_total_pages, lines 220-281: the value returned when the page-1 request
\* ends in `outcome`.
GetTotalPages(outcome, doc) ==
    IF outcome = "status" THEN 0
    ELSE IF outcome = "raise" THEN 1
    ELSE GetTotalPagesDoc(doc)

\* _scrape_office_data_from_html, lines 438-466: total_pages after page 1 is parsed.
WalkTotalPages(doc) ==
    LET last == LastPageLink(doc)
    IN  IF Len(doc) = 0 THEN 1
        ELSE IF last.truthy THEN (IF last.page # 0 THEN last.page ELSE 1)
        ELSE IF PageNumbers(doc) # {} THEN Max(PageNumbers(doc))
        ELSE 1

\* The page-1 documents the site serves in a session.
NumLink(k) == [text |-> "num", n |-> k, href |-> "page", page |-> k]

JumpLink(href, p) == [text |-> ">>", n |-> 0, href |-> href, page |-> p]

SiteDocs ==
    { << >>,
      <<NumLink(1), NumLink(2)>>,
      <<NumLink(1), NumLink(2), JumpLink("page", 3)>>,
      <<NumLink(1), NumLink(2), JumpLink("nopage", 0)>> }

----------------------------------------------------------------------------
\* The listing table of page p: one entry per <tr> after the header row.
\* cols is the number of <td> cells, mem_no the identifier in the name link's
\* href (0 when the link carries none).
SiteRows(p) ==
    CASE p = 1 -> <<[cols |-> 5, mem_no |-> 101], [cols |-> 3, mem_no |-> 0]>>
      [] p = 2 -> <<[cols |-> 5, mem_no |-> 0]>>
      [] OTHER -> <<[cols |-> 6, mem_no |-> 0]>>

\* _get_sigungu_name_by_code / _get_dong_name_by_code: the name a code maps
\* back to in the crawler's current code table, "" when there is none.
NameByCode(codes, code) ==
    IF codes.has /\ \E n \in DOMAIN codes.map : codes.map[n] = code
    THEN CHOOSE n \in DOMAIN codes.map : codes.map[n] = code
    ELSE ""

RECURSIVE ParseRows(_, _, _, _)
\* _scrape_office_data_from_html, lines 472-547: the records of the rows
\* rows[i..] of page p; a row with fewer than 5 cells yields nothing.
ParseRows(rows, i, p, names) ==
    IF i > Len(rows) THEN << >>
    ELSE (IF rows[i].cols >= 5
          THEN <<[sido |-> names[1], sigungu |-> names[2], dong |-> names[3],
                  page |-> p, row |-> i, mem_no |-> rows[i].mem_no]>>
          ELSE << >>) \o ParseRows(rows, i + 1, p, names)

RECURSIVE DetailEvents(_)
\* One request to office_detail.asp for every record that has a mem_no.
DetailEvents(recs) ==
    IF recs = << >> THEN << >>
    ELSE (IF Head(recs).mem_no # 0
          THEN << <<"detail", Head(recs).mem_no, 0, 0>> >>
          ELSE << >>) \o DetailEvents(Tail(recs))

----------------------------------------------------------------------------
\* State of the search threads.

Threads == {1, 2}

\* progress_callback: None, or a callable that raises when it is called with
\* one of the pages in raisesAt.
Callbacks ==
    {[given |-> FALSE, raisesAt |-> {}]}
    \cup {[given |-> TRUE, raisesAt |-> S] : S \in {{}, {0}, {2}}}

\* The GUI's _update_page_progress wraps its body in try/except: it never raises.
GuiCallback == [given |-> TRUE, raisesAt |-> {}]

IdleThread ==
    [pc |-> "idle", sido |-> "", sigungu |-> "", dong |-> "", cb |-> GuiCallback,
     sido_code |-> 0, sigungu_code |-> 0, dong_code |-> 0,
     current_page |-> 0, total_pages |-> 0, acc |-> << >>, ret |-> << >>]

Running(t) == w[t].pc \notin {"idle", "done", "killed"}

InitCommon ==
    /\ sigungu_codes = NoCodes
    /\ dong_codes = NoCodes
    /\ results = << >>
    /\ rs_sigungu_list = << >>
    /\ rs_dong_list = << >>
    /\ comboRequests = 0
    /\ nLookups = 0
    /\ lastLookup = [fn |-> "", sido |-> "", sigungu |-> "", ret |-> << >>, sent |-> FALSE,
                     outcome |-> ""]
    /\ w = [t \in Threads |-> IdleThread]
    /\ log = [t \in Threads |-> << >>]
    /\ gui = [search_button |-> TRUE, search_worker |-> 0, polling |-> FALSE,
              stop |-> {}, closed |-> FALSE, search_results |-> << >>]

NoProbe == [doc |-> << >>, outcome |-> "ok", called |-> FALSE, ret |-> 0]

Init ==
    /\ InitCommon
    /\ siteDoc \in SiteDocs
    /\ probe = NoProbe

----------------------------------------------------------------------------
\* ApiRegionSearch.get_sigungu_list / get_dong_list: the per-parent name caches.

Put(f, k, v) == [x \in (DOMAIN f) \cup {k} |-> IF x = k THEN v ELSE f[x]]

\* get_sigungu_list without lines 76-77: every call goes to the crawler.
RsGetSigungu_NoCache(sido, outcome) ==
    /\ nLookups < MaxLookups
    /\ nLookups' = nLookups + 1
    /\ LET r == CrawlerGetSigungu(sido, outcome, sigungu_codes)
       IN  /\ rs_sigungu_list' = Put(rs_sigungu_list, sido, r.ret)
           /\ sigungu_codes' = r.codes
           /\ comboRequests' = comboRequests + (IF r.sent THEN 1 ELSE 0)
           /\ lastLookup' = [fn |-> "sigungu", sido |-> sido, sigungu |-> "",
                             ret |-> r.ret, sent |-> r.sent,
                             outcome |-> IF r.sent THEN outcome ELSE ""]
    /\ UNCHANGED <<siteDoc, dong_codes, results, rs_dong_list, w, log, gui, probe>>

\* get_sigungu_list storing the crawler's answer only when it is not empty.
RsGetSigungu_CacheNonEmpty(sido, outcome) ==
    /\ nLookups < MaxLookups
    /\ nLookups' = nLookups + 1
    /\ IF sido \in DOMAIN rs_sigungu_list
       THEN /\ lastLookup' = [fn |-> "sigungu", sido |-> sido, sigungu |-> "",
                              ret |-> rs_sigungu_list[sido], sent |-> FALSE,
                              outcome |-> ""]
            /\ UNCHANGED <<rs_sigungu_list, sigungu_codes, comboRequests>>
       ELSE LET r == CrawlerGetSigungu(sido, outcome, sigungu_codes)
            IN  /\ rs_sigungu_list' = IF r.ret = << >> THEN rs_sigungu_list
                                      ELSE Put(rs_sigungu_list, sido, r.ret)
                /\ sigungu_codes' = r.codes
                /\ comboRequests' = comboRequests + (IF r.sent THEN 1 ELSE 0)
                /\ lastLookup' = [fn |-> "sigungu", sido |-> sido, sigungu |-> "",
                                  ret |-> r.ret, sent |-> r.sent,
                                  outcome |-> IF r.sent THEN outcome ELSE ""]
    /\ UNCHANGED <<siteDoc, dong_codes, results, rs_dong_list, w, log, gui, probe>>

\* ApiRegionSearch.get_sigungu_list(sido), lines 65-85.
RsGetSigungu(sido, outcome) ==
    /\ nLookups < MaxLookups
    /\ nLookups' = nLookups + 1
    /\ IF sido \in DOMAIN rs_sigungu_list
       THEN /\ lastLookup' = [fn |-> "sigungu", sido |-> sido, sigungu |-> "",
                              ret |-> rs_sigungu_list[sido], sent |-> FALSE,
                              outcome |-> ""]
            /\ UNCHANGED <<rs_sigungu_list, sigungu_codes, comboRequests>>
       ELSE LET r == CrawlerGetSigungu(sido, outcome, sigungu_codes)
            IN  /\ rs_sigungu_list' = Put(rs_sigungu_list, sido, r.ret)
                /\ sigungu_codes' = r.codes
                /\ comboRequests' = comboRequests + (IF r.sent THEN 1 ELSE 0)
                /\ lastLookup' = [fn |-> "sigungu", sido |-> sido, sigungu |-> "",
                                  ret |-> r.ret, sent |-> r.sent,
                                  outcome |-> IF r.sent THEN outcome ELSE ""]
    /\ UNCHANGED <<siteDoc, dong_codes, results, rs_dong_list, w, log, gui, probe>>

RsGetDong(sido, sigungu, outcome) ==
    /\ nLookups < MaxLookups
    /\ nLookups' = nLookups + 1
    /\ LET cache_key == <<sido, sigungu>>
       IN  IF cache_key \in DOMAIN rs_dong_list
           THEN /\ lastLookup' = [fn |-> "dong", sido |-> sido, sigungu |-> sigungu,
                                  ret |-> rs_dong_list[cache_key], sent |-> FALSE,
                                  outcome |-> ""]
                /\ UNCHANGED <<rs_dong_list, dong_codes, comboRequests>>
           ELSE LET r == CrawlerGetDong(sido, sigungu, outcome, sigungu_codes, dong_codes)
                IN  /\ rs_dong_list' = Put(rs_dong_list, cache_key, r.ret)
                    /\ dong_codes' = r.codes
                    /\ comboRequests' = comboRequests + (IF r.sent THEN 1 ELSE 0)
                    /\ lastLookup' = [fn |-> "dong", sido |-> sido, sigungu |-> sigungu,
                                      ret |-> r.ret, sent |-> r.sent,
                                      outcome |-> IF r.sent THEN outcome ELSE ""]
    /\ UNCHANGED <<siteDoc, sigungu_codes, results, rs_sigungu_list, w, log, gui, probe>>

----------------------------------------------------------------------------
\* ApiRegionSearch.search -> ApiCrawler.search_real_estate_offices, one
\* thread t at a time.  Positions (pc):
\*   "resolve"   before line 297 (nothing done yet)
\*   "discover"  before line 323 (get_total_pages)
\*   "open"      before line 400 (the scrape's own request for page 1)
\*   "loop"      at the while test of line 418, with current_page <= total_pages
\*   "enrich"    before line 334, self.results assigned
\*   "return"    before line 361
\*   "done"      search() has returned w[t].ret

Params(t) == <<w[t].sido_code, w[t].sigungu_code, w[t].dong_code>>

\* Lines 531-533: the region names written into every record, looked up from
\* the codes in the crawler's code tables as they are when the row is parsed.
RecordNames(t) ==
    <<SidoNameByCode(w[t].sido_code),
      IF w[t].sigungu_code # 0 THEN NameByCode(sigungu_codes, w[t].sigungu_code) ELSE "",
      IF w[t].dong_code # 0 THEN NameByCode(dong_codes, w[t].dong_code) ELSE "">>

\* search(sido, sigungu, dong, progress_callback=cb) is entered on thread t.
Begin(t, sido, sigungu, dong, cb) ==
    /\ w' = [w EXCEPT ![t] = [IdleThread EXCEPT !.pc = "resolve", !.sido = sido,
                              !.sigungu = sigungu, !.dong = dong, !.cb = cb]]
    /\ log' = [log EXCEPT ![t] = << >>]

\* search_real_estate_offices returned False (or raised): search() returns [].
Fail(t) == [w[t] EXCEPT !.pc = "done", !.ret = << >>]

\* Lines 297-320: the codes sent with the listing requests.  o1 / o2 are the
\* outcomes of the combo requests made when a code table was never set.
ResolveCodes(sido, sigungu, dong, o1, o2, scodes, dcodes) ==
    LET sido_code == SidoCode(sido)
        r1 == IF sigungu # "" /\ ~scodes.has
              THEN CrawlerGetSigungu(sido, o1, scodes)
              ELSE [ret |-> << >>, codes |-> scodes, sent |-> FALSE]
        sigungu_code == IF sigungu # "" THEN CodeOf(r1.codes, sigungu) ELSE 0
        wantDong == dong # "" /\ sigungu # ""
        r2 == IF wantDong /\ ~dcodes.has
              THEN CrawlerGetDong(sido, sigungu, o2, r1.codes, dcodes)
              ELSE [ret |-> << >>, codes |-> dcodes, sent |-> FALSE]
        dong_code == IF wantDong THEN CodeOf(r2.codes, dong) ELSE 0
    IN  IF sido_code = 0
        THEN [ok |-> FALSE, scodes |-> scodes, dcodes |-> dcodes, sent |-> 0,
              sido_code |-> 0, sigungu_code |-> 0, dong_code |-> 0]
        ELSE IF sigungu # "" /\ (~r1.codes.has \/ sigungu_code = 0)
        THEN [ok |-> FALSE, scodes |-> r1.codes, dcodes |-> dcodes,
              sent |-> IF r1.sent THEN 1 ELSE 0,
              sido_code |-> sido_code, sigungu_code |-> 0, dong_code |-> 0]
        ELSE [ok |-> ~(wantDong /\ ~r2.codes.has),
              scodes |-> r1.codes, dcodes |-> r2.codes,
              sent |-> (IF r1.sent THEN 1 ELSE 0) + (IF r2.sent THEN 1 ELSE 0),
              sido_code |-> sido_code, sigungu_code |-> sigungu_code,
              dong_code |-> dong_code]

Resolve(t, o1, o2) ==
    /\ w[t].pc = "resolve"
    /\ LET r == ResolveCodes(w[t].sido, w[t].sigungu, w[t].dong, o1, o2,
                             sigungu_codes, dong_codes)
       IN  /\ sigungu_codes' = r.scodes
           /\ dong_codes' = r.dcodes
           /\ comboRequests' = comboRequests + r.sent
           /\ w' = [w EXCEPT ![t] =
                       IF r.ok
                       THEN [@ EXCEPT !.pc = "discover", !.sido_code = r.sido_code,
                                      !.sigungu_code = r.sigungu_code,
                                      !.dong_code = r.dong_code]
                       ELSE Fail(t)]
    /\ UNCHANGED <<siteDoc, results, rs_sigungu_list, rs_dong_list, nLookups, lastLookup,
                   log, gui, probe>>

\* Lines 322-328: get_total_pages fetches page 1, then the callback is told
\* (0, total_pages, 0).  An exception from the callback leaves through the
\* except clause of line 363.
Discover(t, o) ==
    /\ w[t].pc = "discover"
    /\ LET total == GetTotalPages(o, siteDoc)
           fetch == <<"list", 1, o, Params(t)>>
           report == <<"report", 0, total, 0>>
       IN  IF ~w[t].cb.given
           THEN /\ log' = [log EXCEPT ![t] = @ \o <<fetch>>]
                /\ w' = [w EXCEPT ![t].pc = "open"]
           ELSE /\ log' = [log EXCEPT ![t] = @ \o <<fetch, report>>]
                /\ w' = [w EXCEPT ![t] = IF 0 \in w[t].cb.raisesAt
                                         THEN Fail(t)
                                         ELSE [@ EXCEPT !.pc = "open"]]
    /\ UNCHANGED <<siteDoc, sigungu_codes, dong_codes, results, rs_sigungu_list,
                   rs_dong_list, comboRequests, nLookups, lastLookup, gui, probe>>

\* _scrape_office_data_from_html returns `recs`; line 331 stores them.
Leave(t, recs) ==
    /\ results' = recs
    /\ w' = [w EXCEPT ![t] = [@ EXCEPT !.pc = "enrich", !.acc = recs]]

\* The scrape with current_page starting at 0 instead of 1.
Open_StartsAtPageZero(t, o) ==
    /\ w[t].pc = "open"
    /\ log' = [log EXCEPT ![t] = @ \o << <<"list", 1, o, Params(t)>> >>]
    /\ IF o = "ok"
       THEN /\ w' = [w EXCEPT ![t] = [@ EXCEPT !.pc = "loop", !.current_page = 0,
                                                 !.total_pages = 1, !.acc = << >>]]
            /\ UNCHANGED results
       ELSE Leave(t, << >>)
    /\ UNCHANGED <<siteDoc, sigungu_codes, dong_codes, rs_sigungu_list, rs_dong_list,
                   comboRequests, nLookups, lastLookup, gui, probe>>

\* Lines 380-415: the scrape requests page 1 itself.
Open(t, o) ==
    /\ w[t].pc = "open"
    /\ log' = [log EXCEPT ![t] = @ \o << <<"list", 1, o, Params(t)>> >>]
    /\ IF o = "ok"
       THEN /\ w' = [w EXCEPT ![t] = [@ EXCEPT !.pc = "loop", !.current_page = 1,
                                                 !.total_pages = 1, !.acc = << >>]]
            /\ UNCHANGED results
       ELSE Leave(t, << >>)
    /\ UNCHANGED <<siteDoc, sigungu_codes, dong_codes, rs_sigungu_list, rs_dong_list,
                   comboRequests, nLookups, lastLookup, gui, probe>>

\* Lines 418-552: one turn of the page loop.  o is the outcome of the request
\* for page current_page (page 1 is parsed from the response Open holds).
\* The "parsed" entry of the log is the logger.info of line 549.
Page(t, o) ==
    /\ w[t].pc = "loop"
    /\ LET cp == w[t].current_page
           tp == w[t].total_pages
           report == IF w[t].cb.given
                     THEN << <<"report", cp, tp, Len(w[t].acc)>> >>
                     ELSE << >>
           fetch == IF cp > 1 THEN << <<"list", cp, o, Params(t)>> >> ELSE << >>
           rows == ParseRows(SiteRows(cp), 1, cp, RecordNames(t))
           tp2 == IF cp = 1 THEN WalkTotalPages(siteDoc) ELSE tp
           acc2 == w[t].acc \o rows
           parsed == << <<"parsed", cp, tp2, Len(acc2)>> >>
       IN  IF w[t].cb.given /\ cp \in w[t].cb.raisesAt
           THEN /\ log' = [log EXCEPT ![t] = @ \o report]
                /\ Leave(t, << >>)
           ELSE IF cp > 1 /\ o = "status"
           THEN /\ log' = [log EXCEPT ![t] = @ \o report \o fetch]
                /\ Leave(t, w[t].acc)
           ELSE IF cp > 1 /\ o = "raise"
           THEN /\ log' = [log EXCEPT ![t] = @ \o report \o fetch]
                /\ Leave(t, << >>)
           ELSE /\ log' = [log EXCEPT ![t] = @ \o report \o fetch \o DetailEvents(rows)
                                                \o parsed]
                /\ IF cp + 1 <= tp2
                   THEN /\ w' = [w EXCEPT ![t] = [@ EXCEPT !.current_page = cp + 1,
                                                         !.total_pages = tp2,
                                                         !.acc = acc2]]
                        /\ UNCHANGED results
                   ELSE /\ results' = acc2
                        /\ w' = [w EXCEPT ![t] = [@ EXCEPT !.pc = "enrich",
                                                         !.current_page = cp + 1,
                                                         !.total_pages = tp2,
                                                         !.acc = acc2]]
    /\ UNCHANGED <<siteDoc, sigungu_codes, dong_codes, rs_sigungu_list, rs_dong_list,
                   comboRequests, nLookups, lastLookup, gui, probe>>

\* Lines 333-359: every record of self.results with a mem_no has its detail
\* page requested (again).
Enrich(t) ==
    /\ w[t].pc = "enrich"
    /\ log' = [log EXCEPT ![t] = @ \o DetailEvents(results)]
    /\ w' = [w EXCEPT ![t].pc = "return"]
    /\ UNCHANGED <<siteDoc, sigungu_codes, dong_codes, results, rs_sigungu_list,
                   rs_dong_list, comboRequests, nLookups, lastLookup, gui, probe>>

\* Line 361 and ApiRegionSearch.search lines 133-147: success is
\* len(self.results) > 0, and the list handed back is get_results().
Return(t) ==
    /\ w[t].pc = "return"
    /\ w' = [w EXCEPT ![t] = [@ EXCEPT !.pc = "done",
                                       !.ret = IF Len(results) > 0 THEN results ELSE << >>]]
    /\ UNCHANGED <<siteDoc, sigungu_codes, dong_codes, results, rs_sigungu_list,
                   rs_dong_list, comboRequests, nLookups, lastLookup, log, gui, probe>>

\* The next step of thread t's search, the site answering its requests with
\* one of the given outcomes.
StepUnder(t, combos, fetches) ==
    \/ \E o1, o2 \in combos : Resolve(t, o1, o2)
    \/ \E o \in fetches : Discover(t, o)
    \/ \E o \in fetches : Open(t, o)
    \/ \E o \in fetches : Page(t, o)
    \/ Enrich(t)
    \/ Return(t)

Step(t) == StepUnder(t, ComboOutcomes, FetchOutcomes)

----------------------------------------------------------------------------
\* One search on a newly constructed ApiRegionSearch, called from one thread
\* with any arguments and any progress callback.

\* The thread of the one caller: the first of the threads.
Caller == CHOOSE t \in Threads : \A u \in Threads : t <= u

Search(sido, sigungu, dong, cb) ==
    /\ w[Caller].pc = "idle"
    /\ Begin(Caller, sido, sigungu, dong, cb)
    /\ UNCHANGED <<siteDoc, sigungu_codes, dong_codes, results, rs_sigungu_list,
                   rs_dong_list, comboRequests, nLookups, lastLookup, gui, probe>>

Next ==
    \/ \E sido \in SidoInputs, sigungu \in SigunguInputs, dong \in DongInputs,
          cb \in Callbacks : Search(sido, sigungu, dong, cb)
    \/ Step(Caller)

Spec == Init /\ [][Next]_vars

----------------------------------------------------------------------------
\* A session of one caller: list lookups through ApiRegionSearch, then a
\* search with the GUI's callback.

TwoPageDoc == <<NumLink(1), NumLink(2)>>

InitRegion ==
    /\ InitCommon
    /\ siteDoc = TwoPageDoc
    /\ probe = NoProbe

ListDistricts ==
    /\ w[Caller].pc = "idle"
    /\ \E sido \in SidoInputs, o \in ComboOutcomes : RsGetSigungu(sido, o)

ListSubDistricts ==
    /\ w[Caller].pc = "idle"
    /\ \E sido \in SidoInputs, sigungu \in SigunguInputs \ {""}, o \in ComboOutcomes :
           RsGetDong(sido, sigungu, o)

NextRegion ==
    \/ ListDistricts
    \/ ListSubDistricts
    \/ \E sido \in SidoInputs, sigungu \in SigunguInputs, dong \in DongInputs :
           Search(sido, sigungu, dong, GuiCallback)
    \/ Step(Caller)

SpecRegion == InitRegion /\ [][NextRegion]_vars

----------------------------------------------------------------------------
\* get_total_pages called on its own, on any page-1 document and any outcome
\* of its request.

InitPages ==
    /\ InitCommon
    /\ siteDoc = << >>
    /\ probe \in [doc : AllDocs, outcome : FetchOutcomes, called : {FALSE}, ret : {0}]

CallGetTotalPages ==
    /\ ~probe.called
    /\ probe' = [probe EXCEPT !.called = TRUE,
                              !.ret = GetTotalPages(probe.outcome, probe.doc)]
    /\ UNCHANGED <<siteDoc, sigungu_codes, dong_codes, results, rs_sigungu_list,
                   rs_dong_list, comboRequests, nLookups, lastLookup, w, log, gui>>

NextPages == CallGetTotalPages

SpecPages == InitPages /\ [][NextPages]_vars

----------------------------------------------------------------------------
\* ApiRealEstateGUI: searches run on ApiSearchWorker threads that all share
\* the window's one ApiRegionSearch (and so its one ApiCrawler).  The
\* arguments of a search are the current texts of the three combo boxes.

GuiSido == {"Seoul", "Busan"}

GuiSigungu == {"Junggu", "Gangnam"}

\* "" is the sub-district combo's first entry, "all".
GuiDong == {""}

\* The window's searches meet the site while it is up.
GuiFetchOutcomes == {"ok"}

InitGui ==
    /\ InitCommon
    /\ siteDoc = TwoPageDoc
    /\ probe = NoProbe

\* _on_search_clicked, lines 330-366: a worker thread is created and started
\* and the result poll begins.  A disabled button delivers no click.
OnSearchClicked(t, sido, sigungu, dong) ==
    /\ ~gui.closed
    /\ gui.search_button
    /\ ~Running(t)
    /\ \A u \in Threads : u < t => Running(u)
    /\ Begin(t, sido, sigungu, dong, GuiCallback)
    /\ gui' = [gui EXCEPT !.search_button = FALSE, !.search_worker = t,
                          !.polling = TRUE, !.stop = @ \ {t}]
    /\ UNCHANGED <<siteDoc, sigungu_codes, dong_codes, results, rs_sigungu_list,
                   rs_dong_list, comboRequests, nLookups, lastLookup, probe>>

\* _check_search_results / _process_search_results, lines 376-447, once the
\* worker the window holds is no longer alive (while it is alive the poll
\* only posts itself again).
CheckSearchResults ==
    /\ ~gui.closed
    /\ gui.polling
    /\ ~Running(gui.search_worker)
    /\ gui' = [gui EXCEPT !.search_results = w[gui.search_worker].ret,
                          !.search_button = TRUE, !.polling = FALSE]
    /\ UNCHANGED <<siteDoc, sigungu_codes, dong_codes, results, rs_sigungu_list,
                   rs_dong_list, comboRequests, nLookups, lastLookup, w, log, probe>>

\* _on_reset_clicked, lines 449-469.
OnResetClicked ==
    /\ ~gui.closed
    /\ gui' = [gui EXCEPT !.search_results = << >>, !.search_button = TRUE]
    /\ UNCHANGED <<siteDoc, sigungu_codes, dong_codes, results, rs_sigungu_list,
                   rs_dong_list, comboRequests, nLookups, lastLookup, w, log, probe>>

\* closeEvent, lines 602-632, answered Yes when a search is running: the
\* worker's stop event is set, join(1) waits at most a second, and the window
\* closes.  The "stop" entry of the log marks where the worker was.
CloseEvent ==
    /\ ~gui.closed
    /\ IF gui.search_worker # 0 /\ Running(gui.search_worker)
       THEN /\ gui' = [gui EXCEPT !.stop = @ \cup {gui.search_worker}, !.closed = TRUE]
            /\ log' = [log EXCEPT ![gui.search_worker] =
                          @ \o << <<"stop", w[gui.search_worker].current_page, 0, 0>> >>]
       ELSE /\ gui' = [gui EXCEPT !.closed = TRUE]
            /\ UNCHANGED log
    /\ UNCHANGED <<siteDoc, sigungu_codes, dong_codes, results, rs_sigungu_list,
                   rs_dong_list, comboRequests, nLookups, lastLookup, w, probe>>

\* main(), line 656: once the window is closed app.exec_() returns and
\* sys.exit ends the process, and with it every daemon thread still running.
ProcessExit ==
    /\ gui.closed
    /\ \E t \in Threads : Running(t)
    /\ w' = [t \in Threads |-> IF Running(t) THEN [w[t] EXCEPT !.pc = "killed"] ELSE w[t]]
    /\ UNCHANGED <<siteDoc, sigungu_codes, dong_codes, results, rs_sigungu_list,
                   rs_dong_list, comboRequests, nLookups, lastLookup, log, gui, probe>>

NextGui ==
    \/ \E t \in Threads, sido \in GuiSido, sigungu \in GuiSigungu, dong \in GuiDong :
           OnSearchClicked(t, sido, sigungu, dong)
    \/ CheckSearchResults
    \/ OnResetClicked
    \/ CloseEvent
    \/ ProcessExit
    \/ \E t \in Threads : StepUnder(t, {"ok"}, GuiFetchOutcomes)

SpecGui == InitGui /\ [][NextGui]_vars

----------------------------------------------------------------------------
\* The rows of one listing page and the detail page behind them: what
\* _scrape_office_data_from_html makes of the <tr> elements of a page, and
\* what search_real_estate_offices then makes of the records.

MaxRows == 2

MaxNodes == 3

\* The text nodes a detail document can hold.  The pattern of lines 344 and
\* 521, (\d{2,3}-\d{3,4}-\d{4}|010-\d{4}-\d{4}), is searched for in each node.
TextNodes ==
    {"02-123-4567", " 02-123-4567 ", "Tel 02-123-4567", "010-1234-5678", "Fax"}

\* The phone-number-shaped substrings of a text node, in order.
PhonesIn(node) ==
    CASE node = "02-123-4567" -> <<"02-123-4567">>
      [] node = " 02-123-4567 " -> <<"02-123-4567">>
      [] node = "Tel 02-123-4567" -> <<"02-123-4567">>
      [] node = "010-1234-5678" -> <<"010-1234-5678">>
      [] OTHER -> << >>

\* str.strip() on a text node.
Strip(node) == IF node = " 02-123-4567 " THEN "02-123-4567" ELSE node

\* find_all(text=re.compile(...)): the text nodes the pattern is found in.
HasPhone(node) == PhonesIn(node) # << >>

FindAll(doc) == SelectSeq(doc, HasPhone)

RECURSIVE AppendNew(_, _)
\* for phone_element in phone_elements: phone = phone_element.strip();
\* if phone not in mobile_phones: mobile_phones.append(phone)
AppendNew(mobile_phones, phone_elements) ==
    IF phone_elements = << >> THEN mobile_phones
    ELSE LET phone == Strip(Head(phone_elements))
         IN  AppendNew(IF \E i \in DOMAIN mobile_phones : mobile_phones[i] = phone
                       THEN mobile_phones
                       ELSE Append(mobile_phones, phone),
                       Tail(phone_elements))

RECURSIVE Join(_)
\* ", ".join(mobile_phones)
Join(strs) ==
    IF strs = << >> THEN ""
    ELSE IF Len(strs) = 1 THEN strs[1]
    ELSE strs[1] \o ", " \o Join(Tail(strs))

AllDetailDocs == UNION {[1..k -> TextNodes] : k \in 0..MaxNodes}

\* The detail documents the site serves in a session of listing pages.
SiteDetailDocs ==
    { << >>,
      <<"02-123-4567", "02-123-4567", "010-1234-5678">>,
      <<"Fax", " 02-123-4567 ">> }

\* A <tr> of the listing table: cols is the number of <td> cells, mem_no the
\* identifier in the href of the name link of cell 1 (0 when there is no link
\* or its href has no moveDetail('N',), phone the text of the link in cell 3
\* ("" when there is no link).
HeaderRow == [cols |-> 0, mem_no |-> 0, phone |-> ""]

BodyRows ==
    {[cols |-> 4, mem_no |-> 0, phone |-> ""]}
    \cup [cols : {5, 6}, mem_no : {0, 101}, phone : {"", "031-111-2222"}]

\* soup.select('table tr'): nothing, or a header row and up to MaxRows rows.
AllTables ==
    {<< >>} \cup {<<HeaderRow>> \o body : body \in UNION {[1..k -> BodyRows] : k \in 0..MaxRows}}

\* Line 477, without the 5: a row needs six cells.
WellFormed_SixColumns(row) == row.cols >= 6

\* Line 477: if len(columns) >= 5
WellFormed(row) == row.cols >= 5

\* Does the code request the detail page of this row / record?
Fetches(row) == WellFormed(row) /\ row.mem_no # 0

\* Lines 472-547 for one row, with the detail request raising out of the
\* row: the except of line 545 then skips the row.
ScrapeRow_DetailFailureSkipsRow(row, i, o, doc) ==
    IF ~WellFormed(row) \/ (row.mem_no # 0 /\ o = "raise") THEN << >>
    ELSE LET elements == IF row.mem_no # 0 /\ o = "ok" THEN FindAll(doc) ELSE << >>
             phone == IF elements = << >> THEN row.phone
                      ELSE Strip(elements[Len(elements)])
         IN  <<[row |-> i, mem_no |-> row.mem_no, phone |-> phone,
                mobile |-> Join(AppendNew(<< >>, elements))]>>

\* Lines 472-547 for the i-th <tr> after the header: the record appended to
\* results, if any.  o is the outcome of the detail request of lines 515-526
\* and doc the detail document; the loop variable of line 523 is the same
\* `phone` the record's phone field is read from.
ScrapeRow(row, i, o, doc) ==
    IF ~WellFormed(row) THEN << >>
    ELSE LET elements == IF row.mem_no # 0 /\ o = "ok" THEN FindAll(doc) ELSE << >>
             phone == IF elements = << >> THEN row.phone
                      ELSE Strip(elements[Len(elements)])
         IN  <<[row |-> i, mem_no |-> row.mem_no, phone |-> phone,
                mobile |-> Join(AppendNew(<< >>, elements))]>>

RECURSIVE ScrapeRows(_, _, _, _)
\* for row in office_rows[1:], from the i-th of them on.
ScrapeRows(rows, i, os, doc) ==
    IF i > Len(rows) THEN << >>
    ELSE ScrapeRow(rows[i], i, os[i], doc) \o ScrapeRows(rows, i + 1, os, doc)

\* office_rows[1:]
BodyOf(table) == IF table = << >> THEN << >> ELSE Tail(table)

\* search_real_estate_offices, lines 334-359, for one record.
EnrichRecord(rec, o, doc) ==
    IF rec.mem_no # 0 /\ o = "ok"
    THEN [rec EXCEPT !.mobile = Join(AppendNew(<< >>, FindAll(doc)))]
    ELSE rec

\* The outcomes of the detail requests of a pass: one per row or record,
\* "ok" where no request is made.
Outcomes(n, fetching) ==
    {os \in [1..n -> FetchOutcomes] : \A i \in 1..n : i \notin fetching => os[i] = "ok"}

InitRowsOver(tables, docs) ==
    /\ InitCommon
    /\ siteDoc = << >>
    /\ probe \in [table : tables, doc : docs, stage : {"new"}, o1 : {<< >>},
                  o2 : {<< >>}, scraped : {<< >>}, recs : {<< >>}]

\* The row loop over the page.
ScrapePage ==
    /\ probe.stage = "new"
    /\ LET body == BodyOf(probe.table)
       IN  \E os \in Outcomes(Len(body), {i \in DOMAIN body : Fetches(body[i])}) :
               LET recs == ScrapeRows(body, 1, os, probe.doc)
               IN  probe' = [probe EXCEPT !.stage = "scraped", !.o1 = os,
                                          !.scraped = recs, !.recs = recs]
    /\ UNCHANGED <<siteDoc, sigungu_codes, dong_codes, results, rs_sigungu_list,
                   rs_dong_list, comboRequests, nLookups, lastLookup, w, log, gui>>

\* The loop over self.results after the walk.
EnrichPage ==
    /\ probe.stage = "scraped"
    /\ LET recs == probe.recs
       IN  \E os \in Outcomes(Len(recs), {k \in DOMAIN recs : recs[k].mem_no # 0}) :
               probe' = [probe EXCEPT
                            !.stage = "enriched", !.o2 = os,
                            !.recs = [k \in DOMAIN recs |->
                                          EnrichRecord(recs[k], os[k], probe.doc)]]
    /\ UNCHANGED <<siteDoc, sigungu_codes, dong_codes, results, rs_sigungu_list,
                   rs_dong_list, comboRequests, nLookups, lastLookup, w, log, gui>>

NextRows ==
    \/ ScrapePage
    \/ EnrichPage

InitRows == InitRowsOver(AllTables, SiteDetailDocs)

SpecRows == InitRows /\ [][NextRows]_vars

\* One identified row, and any detail document behind it.
OneRowTable == <<HeaderRow, [cols |-> 5, mem_no |-> 101, phone |-> "031-111-2222"]>>

InitDetail == InitRowsOver({OneRowTable}, AllDetailDocs)

SpecDetail == InitDetail /\ [][NextRows]_vars

----------------------------------------------------------------------------
\* DataExporter: clean_data and export_to_csv.  A record is a Python dict,
\* here the sequence of its <<key, value>> pairs in insertion order.  The
\* keys are romanised: sido, sigungu, dong, sangho (business name), daepyoja
\* (representative), phone, mobile, address; mem_no and jiyeok (raw region
\* text) are the keys the scraper adds that the export leaves out.

MaxRecords == 2

\* Lines 53-56: the fixed column list.
ExportColumns ==
    <<"sido", "sigungu", "dong", "sangho", "daepyoja", "phone", "mobile", "address">>

\* The keys and values of the records handed to the exporter.
RecordValues(key) ==
    CASE key = "sido" -> {"Seoul"}
      [] key = "sangho" -> {"", "Office"}
      [] OTHER -> {"101", "102"}

RecordKeyOrders ==
    LET keys == {"sido", "sangho", "mem_no"}
    IN  UNION {{ks \in [1..k -> keys] : \A i, j \in 1..k : i # j => ks[i] # ks[j]} :
               k \in 0..Cardinality(keys)}

ExportRecords ==
    UNION {{[i \in DOMAIN ks |-> <<ks[i], v[i]>>] :
              v \in {f \in [DOMAIN ks -> {"", "Seoul", "Office", "101", "102"}] :
                       \A i \in DOMAIN ks : f[i] \in RecordValues(ks[i])}} :
           ks \in RecordKeyOrders}

ExportInputs == UNION {[1..k -> ExportRecords] : k \in 0..MaxRecords}

KeysOf(rec) == {rec[i][1] : i \in DOMAIN rec}

\* pandas' missing value.
NaN == "<NaN>"

ValueOf(rec, key) ==
    IF key \in KeysOf(rec)
    THEN rec[CHOOSE i \in DOMAIN rec : rec[i][1] = key][2]
    ELSE NaN

RECURSIVE FrameColumns(_, _)
\* pd.DataFrame(data).columns: the keys of the records in order of first
\* appearance.
FrameColumns(cols, pairs) ==
    IF pairs = << >> THEN cols
    ELSE FrameColumns(IF \E i \in DOMAIN cols : cols[i] = Head(pairs)[1]
                      THEN cols ELSE Append(cols, Head(pairs)[1]),
                      Tail(pairs))

RECURSIVE Flatten(_)
Flatten(data) == IF data = << >> THEN << >> ELSE Head(data) \o Flatten(Tail(data))

RECURSIVE DropDuplicates(_, _)
\* df.drop_duplicates(): a row equal to an earlier one in every column is
\* dropped (missing values count as equal).
DropDuplicates(kept, rows) ==
    IF rows = << >> THEN kept
    ELSE DropDuplicates(IF \E i \in DOMAIN kept : kept[i] = Head(rows)
                        THEN kept ELSE Append(kept, Head(rows)),
                        Tail(rows))

\* df.fillna("")
FillNa(row) == [c \in DOMAIN row |-> IF row[c] = NaN THEN "" ELSE row[c]]

EmptyFrame == [columns |-> << >>, rows |-> << >>]

\* clean_data keeping the frame's own column order for the columns of the
\* fixed list.
CleanData_FrameOrder(data) ==
    IF data = << >> THEN EmptyFrame
    ELSE LET cols == FrameColumns(<< >>, Flatten(data))
             colset == {cols[i] : i \in DOMAIN cols}
             frame == [i \in DOMAIN data |-> [c \in colset |-> ValueOf(data[i], c)]]
             rows == DropDuplicates(<< >>, frame)
             Listed(c) == \E i \in DOMAIN ExportColumns : ExportColumns[i] = c
             available == SelectSeq(cols, Listed)
         IN  [columns |-> available,
              rows |-> [i \in DOMAIN rows |->
                           [j \in DOMAIN available |-> FillNa(rows[i])[available[j]]]]]

\* clean_data, lines 28-66: the frame of the records, duplicates dropped,
\* missing values filled, cut down to the columns of the fixed list that the
\* frame has.  A row of the result is the sequence of its cells.
CleanData(data) ==
    IF data = << >> THEN EmptyFrame
    ELSE LET cols == FrameColumns(<< >>, Flatten(data))
             colset == {cols[i] : i \in DOMAIN cols}
             frame == [i \in DOMAIN data |-> [c \in colset |-> ValueOf(data[i], c)]]
             rows == DropDuplicates(<< >>, frame)
             InFrame(c) == c \in colset
             available == SelectSeq(ExportColumns, InFrame)
         IN  [columns |-> available,
              rows |-> [i \in DOMAIN rows |->
                           [j \in DOMAIN available |-> FillNa(rows[i])[available[j]]]]]

\* df.empty: no rows, or no columns.
IsEmpty(df) == Len(df.columns) = 0 \/ Len(df.rows) = 0

NoFile == [exists |-> FALSE, columns |-> << >>, rows |-> << >>]

\* What os.makedirs and to_csv meet: a writable directory, a directory that
\* cannot be created, or a file that cannot be opened for writing.
FsOutcomes == {"ok", "nomkdir", "nowrite"}

\* export_to_csv without lines 84-86: an empty frame is written like any other.
ExportToCsv_NoEmptyCheck(data, fs) ==
    LET df == CleanData(data)
    IN  IF fs # "ok" THEN [ret |-> "None", file |-> NoFile]
        ELSE [ret |-> "path",
              file |-> [exists |-> TRUE, columns |-> df.columns, rows |-> df.rows]]

\* export_to_csv, lines 68-111: "None" or the path, and the file written.
ExportToCsv(data, fs) ==
    LET df == CleanData(data)
    IN  IF IsEmpty(df) \/ fs # "ok" THEN [ret |-> "None", file |-> NoFile]
        ELSE [ret |-> "path",
              file |-> [exists |-> TRUE, columns |-> df.columns, rows |-> df.rows]]

InitExport ==
    /\ InitCommon
    /\ siteDoc = << >>
    /\ probe \in [data : ExportInputs, fs : FsOutcomes, called : {FALSE},
                  ret : {"None"}, file : {NoFile}]

CallExportToCsv ==
    /\ ~probe.called
    /\ LET r == ExportToCsv(probe.data, probe.fs)
       IN  probe' = [probe EXCEPT !.called = TRUE, !.ret = r.ret, !.file = r.file]
    /\ UNCHANGED <<siteDoc, sigungu_codes, dong_codes, results, rs_sigungu_list,
                   rs_dong_list, comboRequests, nLookups, lastLookup, w, log, gui>>

NextExport == CallExportToCsv

SpecExport == InitExport /\ [][NextExport]_vars

----------------------------------------------------------------------------
\* ApiRegionSearch.search, lines 141-147: the records of a finished search
\* handed to export_to_csv under the caller's output_file.  Paths are
\* absolute once resolved; cwd is the process's working directory.

\* DataExporter.__init__, line 23: os.path.expanduser of the default folder.
DefaultDirectory == "/home/user/Documents/realestate"

WorkingDirectories == {"/work", DefaultDirectory}

\* The output_file a caller passes ("" = none).
OutputFiles == {"", "out.csv", "OUT.CSV", "out", "/abs/out.csv"}

\* os.path.isabs: every path here but the bare names is absolute.
IsAbs(path) == path \notin {"", "out.csv", "OUT.CSV", "out"}

\* Lines 98-99: filename.lower().endswith('.csv'), else '.csv' is appended.
WithCsvSuffix(filename) == IF filename = "out" THEN "out.csv" ELSE filename

\* os.path.join(a, b): b alone when b is absolute.
PathJoin(a, b) == IF IsAbs(b) THEN b ELSE a \o "/" \o b

\* The absolute path a path names in a process whose working directory is cwd.
AbsPath(cwd, path) == PathJoin(cwd, path)

\* export_to_csv, lines 88-102: the path of the file written (filename is
\* not empty here; directory "" = not given).
FilePath(filename, directory, cwd) ==
    LET save_dir == IF directory # "" THEN directory ELSE DefaultDirectory
    IN  AbsPath(cwd, PathJoin(save_dir, WithCsvSuffix(filename)))

InitOutput ==
    /\ InitCommon
    /\ siteDoc = << >>
    /\ probe \in [results : ExportInputs, output_file : OutputFiles,
                  cwd : WorkingDirectories, fs : FsOutcomes, called : {FALSE},
                  written : {{}}]

\* if output_file and results: self.data_exporter.export_to_csv(results, output_file)
SearchWithOutput ==
    /\ ~probe.called
    /\ LET r == ExportToCsv(probe.results, probe.fs)
           exported == probe.output_file # "" /\ probe.results # << >> /\ r.ret # "None"
       IN  probe' = [probe EXCEPT
                        !.called = TRUE,
                        !.written = IF exported
                                    THEN {FilePath(probe.output_file, "", probe.cwd)}
                                    ELSE {}]
    /\ UNCHANGED <<siteDoc, sigungu_codes, dong_codes, results, rs_sigungu_list,
                   rs_dong_list, comboRequests, nLookups, lastLookup, w, log, gui>>

NextOutput == SearchWithOutput

SpecOutput == InitOutput /\ [][NextOutput]_vars

----------------------------------------------------------------------------
\* The province list: ApiCrawler.get_sido_list and ApiRegionSearch.initialize
\* and get_sido_list, called in any order between district and sub-district
\* lookups.  probe holds ApiRegionSearch.sido_list and what initialize returned.

\* The keys of sido_mapping in the order the dictionary literal inserts them.
SidoKeys ==
    <<"Seoul", "Gyeonggi", "Incheon", "Busan", "Daegu", "Gwangju", "Daejeon",
      "Ulsan", "Gangwon", "Gyeongnam", "Gyeongbuk", "Jeonnam", "Jeonbuk",
      "Chungnam", "Chungbuk", "Sejong", "Jeju">>

\* ApiCrawler.get_sido_list: list(self.sido_mapping.keys()), no request.
CrawlerGetSidoList ==
    [ret |-> SelectSeq(SidoKeys, LAMBDA n : n \in DOMAIN sido_mapping), sent |-> FALSE]

InitProvinces ==
    /\ InitCommon
    /\ siteDoc = TwoPageDoc
    /\ probe = [sido_list |-> << >>, initialized |-> FALSE, ret |-> FALSE]

\* ApiCrawler.get_sido_list called directly.
GetSidoList ==
    /\ w[Caller].pc = "idle"
    /\ LET r == CrawlerGetSidoList
       IN  /\ comboRequests' = comboRequests + (IF r.sent THEN 1 ELSE 0)
           /\ lastLookup' = [fn |-> "sido", sido |-> "", sigungu |-> "", ret |-> r.ret,
                             sent |-> r.sent, outcome |-> ""]
    /\ UNCHANGED <<siteDoc, sigungu_codes, dong_codes, results, rs_sigungu_list,
                   rs_dong_list, nLookups, w, log, gui, probe>>

\* ApiRegionSearch.initialize
Initialize ==
    /\ w[Caller].pc = "idle"
    /\ LET r == CrawlerGetSidoList
       IN  /\ comboRequests' = comboRequests + (IF r.sent THEN 1 ELSE 0)
           /\ probe' = [sido_list |-> r.ret, initialized |-> TRUE, ret |-> r.ret # << >>]
           /\ lastLookup' = [fn |-> "initialize", sido |-> "", sigungu |-> "",
                             ret |-> r.ret, sent |-> r.sent, outcome |-> ""]
    /\ UNCHANGED <<siteDoc, sigungu_codes, dong_codes, results, rs_sigungu_list,
                   rs_dong_list, nLookups, w, log, gui>>

\* ApiRegionSearch.get_sido_list: the list initialize stored.
RsGetSidoList ==
    /\ w[Caller].pc = "idle"
    /\ lastLookup' = [fn |-> "rs_sido", sido |-> "", sigungu |-> "",
                      ret |-> probe.sido_list, sent |-> FALSE, outcome |-> ""]
    /\ UNCHANGED <<siteDoc, sigungu_codes, dong_codes, results, rs_sigungu_list,
                   rs_dong_list, comboRequests, nLookups, w, log, gui, probe>>

NextProvinces ==
    \/ GetSidoList
    \/ Initialize
    \/ RsGetSidoList
    \/ ListDistricts
    \/ ListSubDistricts

SpecProvinces == InitProvinces /\ [][NextProvinces]_vars

----------------------------------------------------------------------------
\* What the claims below read off a thread's log.

Events(t, kind) == {i \in DOMAIN log[t] : log[t][i][1] = kind}

\* The requests for listing page p.
ListFetches(t, p) == {i \in Events(t, "list") : log[t][i][2] = p}

\* The search is past the page walk, and the walk ran until current_page > total_pages.
WalkComplete(t) ==
    /\ w[t].pc \in {"enrich", "return", "done"}
    /\ w[t].current_page > w[t].total_pages

\* The callback raised at one of its invocations.
CallbackRaised(t) ==
    \E i \in Events(t, "report") : log[t][i][2] \in w[t].cb.raisesAt

\* Every listing request of the search came back with status 200.
AllFetchesOk(t) == \A i \in Events(t, "list") : log[t][i][3] = "ok"

RECURSIVE PagesRecords(_, _, _)
\* The records of listing pages p..last, in page order and row order.
PagesRecords(p, last, names) ==
    IF p > last THEN << >>
    ELSE ParseRows(SiteRows(p), 1, p, names) \o PagesRecords(p + 1, last, names)

----------------------------------------------------------------------------
\* The code the site itself lists for a name in a combo response.
SiteCodeFor(resp, name) ==
    IF \E i \in DOMAIN resp.name : resp.name[i] = name
    THEN resp.code[CHOOSE i \in DOMAIN resp.name : resp.name[i] = name]
    ELSE 0

\* C1: every listing request of search(P, D) carries the district code that
\* P's own district lookup gives for the name D (and, when it carries a
\* sub-district code, the one the lookup of that district gives), never a
\* code that came from another province's lookup.
C1_CodesScopedToParent ==
    \A t \in Threads : \A i \in Events(t, "list") :
        LET sel == log[t][i][4]
            own == SiteCodeFor(SiteSigungu(SidoCode(w[t].sido)), w[t].sigungu)
        IN  /\ sel[1] = SidoCode(w[t].sido)
            /\ w[t].sigungu # "" => sel[2] = own
            /\ sel[3] # 0 =>
                   sel[3] = SiteCodeFor(SiteDong(SidoCode(w[t].sido), own), w[t].dong)

\* C2: within one search, listing page 1 is requested exactly once; the walk
\* takes its rows and its page count from that one response.
C2_PageOneRequestedOnce ==
    \A t \in Threads :
        /\ Cardinality(ListFetches(t, 1)) <= 1
        /\ Events(t, "parsed") # {} => Cardinality(ListFetches(t, 1)) = 1

\* C3: for every page n the walk has parsed, the callback is invoked with
\* (n, total pages, records accumulated through page n) after the rows of
\* page n and before any request for page n + 1.
C3_ReportAfterEachPage ==
    \A t \in Threads :
        w[t].cb.given /\ ~CallbackRaised(t) =>
            \A i \in Events(t, "parsed") :
                \E j \in Events(t, "report") :
                    /\ j > i
                    /\ log[t][j][2] = log[t][i][2]
                    /\ log[t][j][3] = log[t][i][3]
                    /\ log[t][j][4] = log[t][i][4]
                    /\ \A k \in Events(t, "list") : ~(i < k /\ k < j)

\* C4: a search given a callback reports currentPage = 0 exactly once, before
\* the page walk requests anything and before any report for a page >= 1,
\* and the total it carries is the number of pages the walk then covers.
C4_ZeroReportAnnouncesTotal ==
    \A t \in Threads :
        w[t].cb.given /\ Events(t, "list") # {} /\ w[t].pc # "discover" =>
            LET zero == {i \in Events(t, "report") : log[t][i][2] = 0}
                z == CHOOSE i \in zero : TRUE
            IN  /\ Cardinality(zero) = 1
                /\ \A j \in Events(t, "report") \ zero : z < j
                /\ Cardinality({k \in Events(t, "list") : k < z}) <= 1
                /\ WalkComplete(t) /\ AllFetchesOk(t) =>
                       log[t][z][3] = w[t].total_pages

\* C5: a callback that raises does not abort the scrape: when every request
\* succeeds, the search returns the records of all the pages, as it does
\* with a callback that does not raise.
C5_CallbackFailureIsolated ==
    \A t \in Threads :
        w[t].pc = "done" /\ CallbackRaised(t) /\ AllFetchesOk(t) =>
            w[t].ret = PagesRecords(1, WalkTotalPages(siteDoc), RecordNames(t))

\* C6: when the request for a page n > 1 fails (a status other than 200, or
\* an exception), the scrape returns the records of pages 1..n-1.
C6_PageFailureKeepsRecords ==
    \A t \in Threads :
        w[t].pc \in {"enrich", "return", "done"} /\ ~CallbackRaised(t) =>
            \A i \in Events(t, "list") :
                log[t][i][2] > 1 /\ log[t][i][3] # "ok" =>
                    w[t].acc = PagesRecords(1, log[t][i][2] - 1, RecordNames(t))

\* C9: get_total_pages returns an integer >= 1 whatever its page-1 request
\* brings back, and exactly 1 when the request fails.
C9_TotalPagesAtLeastOne ==
    probe.called =>
        /\ probe.ret >= 1
        /\ probe.outcome # "ok" => probe.ret = 1

\* C10: on a fetched document get_total_pages returns the page number in the
\* href of the jump-to-last control (the first link whose text is '>>' or
\* the right guillemet, in document order) when that href carries one,
\* otherwise the largest number among the numeric page links, and 1 when
\* there is neither.
C10_Discovery ==
    probe.called /\ probe.outcome = "ok" =>
        LET d == probe.doc
            jumps == {i \in DOMAIN d : d[i].text \in JumpTexts}
            nums == {d[i].n : i \in {j \in DOMAIN d : d[j].text = "num"}}
        IN  probe.ret =
                IF jumps # {} /\ d[Min(jumps)].href = "page" THEN d[Min(jumps)].page
                ELSE IF nums # {} THEN Max(nums)
                ELSE 1

\* C10 witness: a document whose jump control names a page smaller than its
\* largest numeric link, and get_total_pages returned the jump control's page.
C10_Witness ==
    /\ probe.called
    /\ probe.outcome = "ok"
    /\ \E i, j \in DOMAIN probe.doc :
           /\ probe.doc[i].text \in JumpTexts
           /\ probe.doc[i].href = "page"
           /\ probe.doc[j].text = "num"
           /\ probe.doc[j].n > probe.doc[i].page
           /\ probe.ret = probe.doc[i].page

\* C7: once stop is signalled on a running worker, the worker may finish the
\* page it is on but requests no later listing page.
C7_StopObservedAtPageBoundary ==
    \A t \in Threads : \A i \in Events(t, "stop") :
        log[t][i][2] >= 1 =>
            \A k \in Events(t, "list") : k > i => log[t][k][2] <= log[t][i][2]

\* C8: the list a search returns is the list its own scrape produced, also
\* when another search runs at the same time on the same ApiRegionSearch.
C8_SearchOwnsItsRecords ==
    \A t \in Threads : w[t].pc = "done" => w[t].ret = w[t].acc

\* C11: once a search has returned, every record it returns that has a
\* mem_no had its detail page requested exactly once during the search.
C11_DetailRequestedOnce ==
    \A t \in Threads :
        w[t].pc = "done" =>
            \A k \in DOMAIN w[t].ret :
                w[t].ret[k].mem_no # 0 =>
                    Cardinality({i \in Events(t, "detail") :
                                     log[t][i][2] = w[t].ret[k].mem_no}) = 1

RECURSIVE AllPhones(_)
\* The phone-number-shaped substrings of a detail document, in document order.
AllPhones(doc) ==
    IF doc = << >> THEN << >> ELSE PhonesIn(Head(doc)) \o AllPhones(Tail(doc))

RECURSIVE FirstSeen(_, _)
\* The sequence s with repeats removed, in order of first appearance.
FirstSeen(seen, s) ==
    IF s = << >> THEN << >>
    ELSE IF Head(s) \in seen THEN FirstSeen(seen, Tail(s))
    ELSE <<Head(s)>> \o FirstSeen(seen \cup {Head(s)}, Tail(s))

\* C13: a record whose detail page was fetched with success has as its
\* mobile-phone field the phone numbers found in the detail document, repeats
\* removed, in order of first appearance, joined by ", ".
C13_MobilePhonesDeduplicated ==
    \A k \in DOMAIN probe.recs :
        LET rec == probe.recs[k]
        IN  /\ rec.mem_no # 0
            /\ \/ probe.stage = "scraped" /\ probe.o1[rec.row] = "ok"
               \/ probe.stage = "enriched" /\ probe.o2[k] = "ok"
            => rec.mobile = Join(FirstSeen({}, AllPhones(probe.doc)))

\* C14: a record whose detail request raises or comes back with a status
\* other than 200 is still emitted, with the phone of its listing row when the
\* request of the row loop failed and exactly as it was when the request of
\* the later pass failed; every other row of the page still has its record.
C14_DetailFailureKeepsRecord ==
    probe.stage # "new" =>
        LET body == BodyOf(probe.table)
        IN  /\ \A i \in DOMAIN body :
                   body[i].cols >= 5 =>
                       \E k \in DOMAIN probe.scraped :
                           /\ probe.scraped[k].row = i
                           /\ body[i].mem_no # 0 /\ probe.o1[i] # "ok" =>
                                  /\ probe.scraped[k].phone = body[i].phone
                                  /\ probe.scraped[k].mobile = ""
            /\ probe.stage = "enriched" =>
                   /\ Len(probe.recs) = Len(probe.scraped)
                   /\ \A k \in DOMAIN probe.recs :
                          probe.recs[k].mem_no # 0 /\ probe.o2[k] # "ok" =>
                              probe.recs[k] = probe.scraped[k]

\* C14 witness: the detail request of the first row raised in the row loop
\* and failed again in the later pass, after a successful one had filled the
\* field of another record; both records are there.
C14_Witness ==
    /\ probe.stage = "enriched"
    /\ Len(probe.recs) = 2
    /\ probe.o1[probe.recs[1].row] = "raise"
    /\ probe.o2[1] = "status"
    /\ probe.recs[1].mem_no # 0
    /\ probe.recs[2].mem_no # 0
    /\ probe.o1[probe.recs[2].row] = "ok"
    /\ probe.o2[2] = "raise"
    /\ probe.recs[2].mobile # ""

\* C15: a district lookup for a province that was looked up before on the
\* same ApiRegionSearch returns what the earlier lookup returned, from the
\* cache, and sends no request; the cached list of a province never changes.
C15_RepeatedLookupFromCache ==
    [][ /\ \A s \in DOMAIN rs_sigungu_list :
               s \in DOMAIN rs_sigungu_list' /\ rs_sigungu_list'[s] = rs_sigungu_list[s]
        /\ nLookups' = nLookups + 1 /\ lastLookup'.fn = "sigungu" =>
               /\ lastLookup'.sido \in DOMAIN rs_sigungu_list'
               /\ rs_sigungu_list'[lastLookup'.sido] = lastLookup'.ret
               /\ lastLookup'.sido \in DOMAIN rs_sigungu_list =>
                      /\ lastLookup'.ret = rs_sigungu_list[lastLookup'.sido]
                      /\ comboRequests' = comboRequests
                      /\ ~lastLookup'.sent ]_vars

\* C15 witness: the second of two lookups for the same province was answered
\* from the cache with the districts the first one fetched.
C15_Witness ==
    /\ nLookups = 2
    /\ lastLookup.fn = "sigungu"
    /\ ~lastLookup.sent
    /\ lastLookup.ret # << >>
    /\ comboRequests = 1
    /\ DOMAIN rs_sigungu_list = {lastLookup.sido}

\* C16: a sub-district lookup made on an instance on which no district
\* lookup was made yet performs the district lookup itself: a request is
\* sent and the district code table is set.
C16_SubDistrictLookupResolvesDistrict ==
    /\ nLookups = 1
    /\ lastLookup.fn = "dong"
    /\ SidoCode(lastLookup.sido) # 0
    => /\ sigungu_codes.has
       /\ comboRequests >= 1

\* C17: a district lookup returns the empty list when the province has no
\* code, when the request comes back with a status other than 200, and when
\* the name array or the code array is missing from the response.
C17_FailedLookupIsEmpty ==
    /\ lastLookup.fn = "sigungu"
    /\ \/ SidoCode(lastLookup.sido) = 0
       \/ lastLookup.outcome \in {"status", "noname", "nocode"}
    => lastLookup.ret = << >>

\* C18: the table export writes never holds two rows that are equal in
\* every column.
C18_NoDuplicateRowsWritten ==
    probe.called /\ probe.file.exists =>
        \A i, j \in DOMAIN probe.file.rows :
            i # j => probe.file.rows[i] # probe.file.rows[j]

\* No record has any of the columns of the fixed list: nothing is left of the
\* record set once it is cleaned.
NothingToExport(data) ==
    \A i \in DOMAIN data :
        KeysOf(data[i]) \cap {ExportColumns[j] : j \in DOMAIN ExportColumns} = {}

\* C19: when nothing is left to export, or the directory cannot be created
\* or written, export_to_csv returns None and writes no file.
C19_ExportFailureReturnsNone ==
    probe.called /\ (NothingToExport(probe.data) \/ probe.fs # "ok") =>
        probe.ret = "None" /\ ~probe.file.exists

\* C19 witness: records whose only key is mem_no were handed to an export
\* into a writable directory, and None came back.
C19_Witness ==
    /\ probe.called
    /\ probe.fs = "ok"
    /\ Len(probe.data) = 2
    /\ NothingToExport(probe.data)
    /\ probe.ret = "None"

\* C20: the columns written are those of the fixed list that some record
\* has, in the order of the fixed list.
C20_ExportColumnsFixedOrder ==
    probe.called /\ probe.file.exists =>
        LET Present(c) == \E i \in DOMAIN probe.data : c \in KeysOf(probe.data[i])
        IN  probe.file.columns = SelectSeq(ExportColumns, Present)

\* C20 witness: a record that has its business name before its province, and
\* a mem_no, was written as province, business name.
C20_Witness ==
    /\ probe.called
    /\ probe.file.exists
    /\ \E i \in DOMAIN probe.data :
           /\ Len(probe.data[i]) = 3
           /\ probe.data[i][1][1] = "sangho"
           /\ probe.data[i][2][1] = "mem_no"
           /\ probe.data[i][3][1] = "sido"
    /\ probe.file.columns = <<"sido", "sangho">>

\* C21: after a search that was given an output file and found records that
\* can be exported, with the file system in order, a file exists at the path
\* the caller gave.
C21_OutputFileAtGivenPath ==
    /\ probe.called
    /\ probe.output_file # ""
    /\ probe.results # << >>
    /\ ~NothingToExport(probe.results)
    /\ probe.fs = "ok"
    => AbsPath(probe.cwd, probe.output_file) \in probe.written

\* C22: the province list is always the same 17 names, fetched with no request,
\* each with its own code in 1..17, whatever lookups ran before; initialize
\* always returns True and get_sido_list is non-empty afterwards.
C22_ProvincesFixed ==
    /\ lastLookup.fn \in {"sido", "initialize"} =>
           /\ ~lastLookup.sent
           /\ lastLookup.ret = SidoKeys
           /\ Len(lastLookup.ret) = 17
           /\ Cardinality(Range(lastLookup.ret)) = 17
           /\ {SidoCode(lastLookup.ret[i]) : i \in DOMAIN lastLookup.ret} = 1 .. 17
           /\ \A i, j \in DOMAIN lastLookup.ret :
                  i # j => SidoCode(lastLookup.ret[i]) # SidoCode(lastLookup.ret[j])
    /\ probe.initialized => probe.ret /\ probe.sido_list = SidoKeys
    /\ probe.initialized /\ lastLookup.fn = "rs_sido" => lastLookup.ret # << >>

C22_Witness ==
    /\ probe.initialized
    /\ lastLookup.fn = "rs_sido"
    /\ comboRequests > 0
    /\ DOMAIN rs_sigungu_list # {}

\* The pages whose rows the walk parsed, in the order it parsed them.
ParsedPages(t) ==
    LET parsed == SelectSeq(log[t], LAMBDA e : e[1] = "parsed")
    IN  [i \in DOMAIN parsed |-> parsed[i][2]]

\* The walk was entered: the scrape's own request for page 1 was made.
WalkEntered(t) == Cardinality(ListFetches(t, 1)) >= 2

\* C23: when every listing request of a search succeeds, the walk parses pages
\* 1, 2, ..., total in that order, each exactly once, and the search returns
\* the records of those pages in page order and row order.
C23_WalkCoversEveryPageOnce ==
    \A t \in Threads :
        w[t].pc = "done" /\ WalkEntered(t) /\ AllFetchesOk(t) =>
            /\ ParsedPages(t) = [p \in 1 .. WalkTotalPages(siteDoc) |-> p]
            /\ w[t].ret = PagesRecords(1, WalkTotalPages(siteDoc), RecordNames(t))

\* C24: the primary phone of every record is the text of the link in cell 3 of
\* the listing row it came from ("" when the row has none), whatever the
\* detail page holds, both after the row loop and after the enrichment pass.
C24_PhoneFromListingRow ==
    probe.stage \in {"scraped", "enriched"} =>
        \A k \in DOMAIN probe.recs :
            probe.recs[k].phone = BodyOf(probe.table)[probe.recs[k].row].phone

\* C25: every record a search returns carries the province, the district and
\* the sub-district the caller selected, "" for the ones not given.
C25_RecordsCarrySelection ==
    \A t \in Threads :
        w[t].pc = "done" =>
            \A k \in DOMAIN w[t].ret :
                /\ w[t].ret[k].sido = w[t].sido
                /\ w[t].ret[k].sigungu = w[t].sigungu
                /\ w[t].ret[k].dong = w[t].dong

\* C26: at most one search worker is alive at any time, whatever the user
\* clicks: no search starts while the worker of an earlier one is running.
C26_OneWorkerAlive ==
    Cardinality({t \in Threads : Running(t)}) <= 1

\* C27: for every page-1 document the site can serve, the number of pages
\* get_total_pages returns is the number of pages the walk derives from it.
C27_TotalsAgree ==
    probe.called /\ probe.outcome = "ok" => probe.ret = WalkTotalPages(probe.doc)

\* The progress reports of thread t's search, in the order they were made.
Reports(t) == SelectSeq(log[t], LAMBDA e : e[1] = "report")

\* C28: every progress report (page, total, count) of a search has
\* 0 <= page <= total; the pages reported are 0, 1, 2, ... in steps of one,
\* and the count never goes down from one report to the next.
C28_ReportsInOrder ==
    \A t \in Threads :
        LET r == Reports(t)
        IN  \A i \in DOMAIN r :
                /\ 0 <= r[i][2] /\ r[i][2] <= r[i][3]
                /\ r[i][2] = i - 1
                /\ i > 1 => r[i][4] >= r[i - 1][4]

C28_Witness ==
    \E t \in Threads :
        /\ w[t].pc = "done"
        /\ Len(Reports(t)) >= 3
        /\ Reports(t)[3][4] > 0

\* The search of thread t ended before any listing request was made.
FailedAtResolve(t) == w[t].pc = "done" /\ Events(t, "list") = {}

\* C29: a search whose sub-district name has no code in the sub-district table
\* (or that names a sub-district without a district) does not fail for that:
\* it goes on to the listing with no sub-district filter; a district name
\* with no code in the district table ends the search with no listing request.
C29_UnmappedNames ==
    \A t \in Threads :
        w[t].pc \notin {"idle", "resolve"} /\ SidoCode(w[t].sido) # 0 =>
            /\ /\ w[t].dong # ""
               /\ \/ w[t].sigungu = ""
                  \/ CodeOf(sigungu_codes, w[t].sigungu) # 0
                         /\ CodeOf(dong_codes, w[t].dong) = 0
               => /\ ~FailedAtResolve(t)
                  /\ \A i \in Events(t, "list") : log[t][i][4][3] = 0
            /\ w[t].sigungu # "" /\ CodeOf(sigungu_codes, w[t].sigungu) = 0
               => FailedAtResolve(t) /\ w[t].ret = << >>

\* C30: a district or sub-district lookup that comes back empty is stored in
\* the ApiRegionSearch cache as the empty list; from then on the entry stays
\* empty and every lookup for the same key returns the empty list and sends
\* no request.
C30_FailedLookupCached ==
    [][ /\ \A s \in DOMAIN rs_sigungu_list :
               rs_sigungu_list[s] = << >> =>
                   s \in DOMAIN rs_sigungu_list' /\ rs_sigungu_list'[s] = << >>
        /\ \A k \in DOMAIN rs_dong_list :
               rs_dong_list[k] = << >> =>
                   k \in DOMAIN rs_dong_list' /\ rs_dong_list'[k] = << >>
        /\ nLookups' = nLookups + 1 =>
               LET l == lastLookup'
                   key == IF l.fn = "sigungu" THEN l.sido ELSE <<l.sido, l.sigungu>>
                   before == IF l.fn = "sigungu" THEN rs_sigungu_list ELSE rs_dong_list
                   after == IF l.fn = "sigungu" THEN rs_sigungu_list' ELSE rs_dong_list'
               IN  /\ l.ret = << >> => key \in DOMAIN after /\ after[key] = << >>
                   /\ key \in DOMAIN before /\ before[key] = << >> =>
                          /\ l.ret = << >>
                          /\ ~l.sent
                          /\ comboRequests' = comboRequests ]_vars

\* C30 witness: a district lookup whose request failed was followed by a
\* lookup for the same province, answered empty from the cache.
C30_Witness ==
    /\ nLookups = 2
    /\ lastLookup.fn = "sigungu"
    /\ ~lastLookup.sent
    /\ lastLookup.ret = << >>
    /\ comboRequests = 1
    /\ SidoCode(lastLookup.sido) # 0
    /\ rs_sigungu_list = Put(<< >>, lastLookup.sido, << >>)

====
